---- MODULE Spec2Model ----
(***************************************************************************)
(* Model of vocab_utils.py: a bidirectional token <-> index vocabulary     *)
(* (word2idx, idx2word, count) with reserved tokens, default-value lookups *)
(* and a frequency-filtered builder.                                       *)
(*                                                                         *)
(* A vocabulary is the record [word2idx, idx2word, count]; a Python dict   *)
(* is a function whose DOMAIN is its key set.  Every function of the file  *)
(* is an operator that returns the vocabulary it leaves behind together    *)
(* with its return value; the actions apply them to the client's           *)
(* vocabulary and record the call and what it returned.                    *)
(***************************************************************************)
EXTENDS Integers, Sequences, FiniteSets, TLC

VARIABLES vocab, call, ret, inserted, batches

vars == <<vocab, call, ret, inserted, batches>>

----------------------------------------------------------------------------
(* Bounds and input sets *)

MaxTokens == 3      \* longest list handed to add_tokens
MaxBatches == 1     \* add_tokens calls in one behaviour
MaxCorpus == 4      \* longest corpus handed to vocabulary_from_tokens
MaxCutoff == 2      \* largest explicit cutoff

DefaultCutoff == 25

\* faulty variant of special_tokens: wrong order
special_tokens_swapped == <<"<PAD>", "<UNK>", "<EOS>">>

special_tokens == <<"<UNK>", "<PAD>", "<EOS>">>

Reserved == {special_tokens[i] : i \in 1..Len(special_tokens)}

CorpusWords == {"a", "b", "cat", "dog"}

\* the strings a client passes to add_token and to the builder
Tokens == Reserved \cup CorpusWords

\* the strings a client passes to add_tokens: present ones and new ones
BatchTokens == {"<UNK>", "cat", "dog"}

\* strings that are looked up but never added
Unseen == {"", "zebra"}

Strings == Tokens \cup Unseen

IndexProbes == (-2) .. (Cardinality(Tokens) + 1)

Cutoffs == ((-1) .. MaxCutoff) \cup {DefaultCutoff}

SeqsUpTo(S, n) == UNION {[1..k -> S] : k \in 0..n}

Range(s) == {s[i] : i \in 1..Len(s)}

----------------------------------------------------------------------------
(* Python dict primitives *)

EmptyDict == <<>>

\* d[k] = v
DictSet(d, k, v) == [x \in (DOMAIN d) \cup {k} |-> IF x = k THEN v ELSE d[x]]

\* d.get(k, default)
DictGet(d, k, default) == IF k \in DOMAIN d THEN d[k] ELSE default

----------------------------------------------------------------------------
(* The functions of vocab_utils.py *)

\* faulty variants of add_token
add_token_no_idx2word(v, token) ==
    IF token \notin DOMAIN v.word2idx
    THEN [vocab |-> [v EXCEPT !.word2idx = DictSet(@, token, v.count),
                              !.count = @ + 1],
          ret |-> v.count]
    ELSE [vocab |-> v, ret |-> v.word2idx[token]]

add_token_no_membership(v, token) ==
    [vocab |-> [word2idx |-> DictSet(v.word2idx, token, v.count),
                idx2word |-> DictSet(v.idx2word, v.count, token),
                count |-> v.count + 1],
     ret |-> v.count]

add_token_ret_count(v, token) ==
    IF token \notin DOMAIN v.word2idx
    THEN [vocab |-> [word2idx |-> DictSet(v.word2idx, token, v.count),
                     idx2word |-> DictSet(v.idx2word, v.count, token),
                     count |-> v.count + 1],
          ret |-> v.count + 1]
    ELSE [vocab |-> v, ret |-> v.word2idx[token]]

add_token_count_on_hit(v, token) ==
    IF token \notin DOMAIN v.word2idx
    THEN [vocab |-> [word2idx |-> DictSet(v.word2idx, token, v.count),
                     idx2word |-> DictSet(v.idx2word, v.count, token),
                     count |-> v.count + 1],
          ret |-> v.count]
    ELSE [vocab |-> [v EXCEPT !.count = @ + 1], ret |-> v.word2idx[token]]

add_token(v, token) ==
    IF token \notin DOMAIN v.word2idx
    THEN LET v1 == [v EXCEPT !.word2idx = DictSet(@, token, v.count)]
             v2 == [v1 EXCEPT !.idx2word = DictSet(@, v1.count, token)]
             v3 == [v2 EXCEPT !.count = @ + 1]
         IN  [vocab |-> v3, ret |-> v3.count - 1]
    ELSE [vocab |-> v, ret |-> v.word2idx[token]]

\* the loop of add_tokens: indices collects one add_token result per token
RECURSIVE add_tokens_loop(_, _, _)
add_tokens_loop(v, tokens, indices) ==
    IF tokens = <<>>
    THEN [vocab |-> v, ret |-> indices]
    ELSE LET r == add_token(v, Head(tokens))
         IN  add_tokens_loop(r.vocab, Tail(tokens), Append(indices, r.ret))

\* faulty variant of add_tokens: appends an index only when the token was new
RECURSIVE add_tokens_loop_new_only(_, _, _)
add_tokens_loop_new_only(v, tokens, indices) ==
    IF tokens = <<>>
    THEN [vocab |-> v, ret |-> indices]
    ELSE LET r == add_token(v, Head(tokens))
         IN  add_tokens_loop_new_only(r.vocab, Tail(tokens),
                 IF Head(tokens) \in DOMAIN v.word2idx
                 THEN indices ELSE Append(indices, r.ret))

add_tokens_new_only(v, tokens) == add_tokens_loop_new_only(v, tokens, <<>>)

add_tokens(v, tokens) == add_tokens_loop(v, tokens, <<>>)

\* for token in special_tokens: add_token(vocab, token)
RECURSIVE add_special(_, _)
add_special(v, tokens) ==
    IF tokens = <<>> THEN v
    ELSE add_special(add_token(v, Head(tokens)).vocab, Tail(tokens))

initialize_vocabulary ==
    add_special([word2idx |-> EmptyDict, idx2word |-> EmptyDict, count |-> 0],
                special_tokens)

\* faulty variant of lookup_token: no default
lookup_token_no_default(v, token) ==
    IF token \notin DOMAIN v.word2idx
    THEN [raised |-> "KeyError", ret |-> -1]
    ELSE [raised |-> "", ret |-> v.word2idx[token]]

\* dict.get evaluates its default first: a vocabulary without '<UNK>' raises
lookup_token(v, token) ==
    IF "<UNK>" \notin DOMAIN v.word2idx
    THEN [raised |-> "KeyError", ret |-> -1]
    ELSE [raised |-> "", ret |-> DictGet(v.word2idx, token, v.word2idx["<UNK>"])]

\* faulty variants of lookup_index: a negative index counts from the end, as in a list
lookup_index_wraps(v, index) ==
    IF index < 0 /\ index + v.count \in DOMAIN v.idx2word
    THEN v.idx2word[index + v.count]
    ELSE DictGet(v.idx2word, index, "<UNK>")

lookup_index_off_by_one(v, index) == DictGet(v.idx2word, index + 1, "<UNK>")

lookup_index(v, index) == DictGet(v.idx2word, index, "<UNK>")

\* Counter(tokens): keys in first-occurrence order, each with its count
RECURSIVE CounterKeys(_)
CounterKeys(tokens) ==
    IF tokens = <<>> THEN <<>>
    ELSE LET init == CounterKeys(SubSeq(tokens, 1, Len(tokens) - 1))
             last == tokens[Len(tokens)]
         IN  IF last \in Range(init) THEN init ELSE Append(init, last)

Counter(tokens) ==
    [keys |-> CounterKeys(tokens),
     count |-> [w \in Range(tokens) |->
                   Cardinality({i \in 1..Len(tokens) : tokens[i] = w})]]

\* faulty variant of the cutoff test: count >= cutoff
Keep_at_least(count, cutoff) == count >= cutoff

Keep(count, cutoff) == count > cutoff

\* for word, count in word_counter.items(): if count > cutoff: add_token(...)
RECURSIVE add_frequent(_, _, _, _)
add_frequent(v, keys, word_counter, cutoff) ==
    IF keys = <<>> THEN v
    ELSE LET word == Head(keys)
             next == IF Keep(word_counter.count[word], cutoff)
                     THEN add_token(v, word).vocab ELSE v
         IN  add_frequent(next, Tail(keys), word_counter, cutoff)

vocabulary_from_tokens(tokens, cutoff) ==
    LET word_counter == Counter(tokens)
    IN  add_frequent(initialize_vocabulary, word_counter.keys,
                     word_counter, cutoff)

----------------------------------------------------------------------------
(* The client: calls and their results *)

NoRet == [raised |-> "", index |-> -1, token |-> "", indices |-> <<>>]

Call(op, token, tokens, index, cutoff) ==
    [op |-> op, token |-> token, tokens |-> tokens, index |-> index,
     cutoff |-> cutoff]

\* the distinct tokens handed to add_token so far, in order of first hand-over
RECURSIVE Remember(_, _)
Remember(seen, tokens) ==
    IF tokens = <<>> THEN seen
    ELSE Remember(IF Head(tokens) \in Range(seen) THEN seen
                  ELSE Append(seen, Head(tokens)), Tail(tokens))

Init ==
    /\ vocab = initialize_vocabulary
    /\ call = Call("initialize_vocabulary", "", <<>>, -1, DefaultCutoff)
    /\ ret = NoRet
    /\ inserted = Remember(<<>>, special_tokens)
    /\ batches = 0

AddToken ==
    \E token \in Tokens :
        LET r == add_token(vocab, token) IN
        /\ vocab' = r.vocab
        /\ call' = Call("add_token", token, <<>>, -1, DefaultCutoff)
        /\ ret' = [NoRet EXCEPT !.index = r.ret]
        /\ inserted' = Remember(inserted, <<token>>)
        /\ UNCHANGED batches

AddTokens ==
    /\ batches < MaxBatches
    /\ \E tokens \in SeqsUpTo(BatchTokens, MaxTokens) :
        LET r == add_tokens(vocab, tokens) IN
        /\ vocab' = r.vocab
        /\ call' = Call("add_tokens", "", tokens, -1, DefaultCutoff)
        /\ ret' = [NoRet EXCEPT !.indices = r.ret]
        /\ inserted' = Remember(inserted, tokens)
        /\ batches' = batches + 1

LookupToken ==
    \E token \in Strings :
        LET r == lookup_token(vocab, token) IN
        /\ call' = Call("lookup_token", token, <<>>, -1, DefaultCutoff)
        /\ ret' = [NoRet EXCEPT !.raised = r.raised, !.index = r.ret]
        /\ UNCHANGED <<vocab, inserted, batches>>

LookupIndex ==
    \E index \in IndexProbes :
        /\ call' = Call("lookup_index", "", <<>>, index, DefaultCutoff)
        /\ ret' = [NoRet EXCEPT !.token = lookup_index(vocab, index)]
        /\ UNCHANGED <<vocab, inserted, batches>>

\* v = vocabulary_from_tokens(tokens, cutoff) as the client's first call
VocabularyFromTokens ==
    /\ call.op = "initialize_vocabulary"
    /\ \E tokens \in SeqsUpTo(Tokens, MaxCorpus), cutoff \in Cutoffs :
        /\ vocab' = vocabulary_from_tokens(tokens, cutoff)
        /\ call' = Call("vocabulary_from_tokens", "", tokens, -1, cutoff)
        /\ ret' = NoRet
        /\ inserted' = Remember(Remember(<<>>, special_tokens),
               SelectSeq(CounterKeys(tokens),
                         LAMBDA w : Counter(tokens).count[w] > cutoff))
        /\ UNCHANGED batches

Next == AddToken \/ AddTokens \/ LookupToken \/ LookupIndex

Spec == Init /\ [][Next]_vars

NextBuild == VocabularyFromTokens \/ AddToken \/ LookupToken \/ LookupIndex

SpecBuild == Init /\ [][NextBuild]_vars

----------------------------------------------------------------------------
(* Properties *)

W2I == vocab.word2idx

I2W == vocab.idx2word

\* C1: word2idx and idx2word are exact inverses in every reachable state:
\* word2idx[t] = i if and only if idx2word[i] = t.
C1_ExactInverses ==
    /\ \A t \in DOMAIN W2I : W2I[t] \in DOMAIN I2W /\ I2W[W2I[t]] = t
    /\ \A i \in DOMAIN I2W : I2W[i] \in DOMAIN W2I /\ W2I[I2W[i]] = i

C1_Witness ==
    /\ call.op = "add_tokens"
    /\ Len(call.tokens) = 3
    /\ vocab.count = 6
    /\ "dog" \in DOMAIN W2I
    /\ W2I["dog"] = 5 /\ I2W[5] = "dog"

\* C2: '<UNK>', '<PAD>', '<EOS>' are at indices 0, 1, 2 after
\* initialize_vocabulary() and stay there under add_token / add_tokens, so
\* lookup_token on them returns 0, 1, 2 and idx2word[0] is '<UNK>'.
C2_ReservedAtLowestIndices ==
    /\ Reserved \subseteq DOMAIN W2I
    /\ W2I["<UNK>"] = 0 /\ W2I["<PAD>"] = 1 /\ W2I["<EOS>"] = 2
    /\ lookup_token(vocab, "<UNK>") = [raised |-> "", ret |-> 0]
    /\ lookup_token(vocab, "<PAD>") = [raised |-> "", ret |-> 1]
    /\ lookup_token(vocab, "<EOS>") = [raised |-> "", ret |-> 2]
    /\ 0 \in DOMAIN I2W /\ I2W[0] = "<UNK>"

C2_Witness ==
    /\ call.op = "add_token"
    /\ call.token = "<EOS>"
    /\ ret.index = 2
    /\ vocab.count = 7

\* C3: add_token on a token that is already a key (reserved ones included)
\* returns the index it already has and changes nothing; so two calls in a
\* row with the same token return the same index, the second changes
\* nothing, and no call grows count by more than 1.
C3_AddExistingIsNoOp ==
    [][ call'.op = "add_token" =>
          /\ vocab'.count - vocab.count \in {0, 1}
          /\ call'.token \in DOMAIN W2I =>
                /\ ret'.index = W2I[call'.token]
                /\ vocab' = vocab
          /\ (call.op = "add_token" /\ call.token = call'.token) =>
                /\ ret'.index = ret.index
                /\ vocab' = vocab ]_vars

C3_Witness ==
    /\ call.op = "add_token"
    /\ call.token = "<PAD>"
    /\ ret.index = 1
    /\ vocab.count = 5

\* C4: add_token on a token that is not a key returns the old count, maps
\* the token to it in both dicts, grows count by exactly 1 and leaves every
\* earlier entry as it was; no step of any operation removes or re-indexes
\* an entry.
C4_AddNewAssignsNextIndex ==
    [][ /\ (call'.op = "add_token" /\ call'.token \notin DOMAIN W2I) =>
            /\ ret'.index = vocab.count
            /\ DOMAIN vocab'.word2idx = DOMAIN W2I \cup {call'.token}
            /\ DOMAIN vocab'.idx2word = DOMAIN I2W \cup {vocab.count}
            /\ vocab'.word2idx[call'.token] = vocab.count
            /\ vocab'.idx2word[vocab.count] = call'.token
            /\ vocab'.count = vocab.count + 1
        /\ call'.op \in {"add_token", "add_tokens", "lookup_token",
                         "lookup_index"} =>
            /\ \A t \in DOMAIN W2I :
                  t \in DOMAIN vocab'.word2idx /\ vocab'.word2idx[t] = W2I[t]
            /\ \A i \in DOMAIN I2W :
                  i \in DOMAIN vocab'.idx2word /\ vocab'.idx2word[i] = I2W[i]
      ]_vars

C4_Witness ==
    /\ call.op = "add_token"
    /\ call.token = "cat"
    /\ ret.index = 4
    /\ vocab.count = 5
    /\ I2W[3] = "b"

\* C5: count is the number of keys of each dict, the assigned indices are
\* exactly 0 .. count-1, and the i-th distinct token inserted holds index i.
C5_DenseIndices ==
    /\ vocab.count = Cardinality(DOMAIN W2I)
    /\ vocab.count = Cardinality(DOMAIN I2W)
    /\ DOMAIN I2W = 0 .. (vocab.count - 1)
    /\ {W2I[t] : t \in DOMAIN W2I} = 0 .. (vocab.count - 1)
    /\ Len(inserted) = vocab.count
    /\ \A i \in 1..Len(inserted) :
          W2I[inserted[i]] = i - 1 /\ I2W[i - 1] = inserted[i]

C5_Witness ==
    /\ vocab.count = 7
    /\ inserted = special_tokens \o <<"a", "cat", "dog", "b">>
    /\ call.op = "add_token"
    /\ batches = 1

\* C6: add_tokens returns len(tokens) indices in input order; the k-th is
\* what add_token returns for tokens[k] once tokens[1..k-1] are in (the old
\* index of an old token, otherwise the old count plus the number of distinct
\* new tokens before its first occurrence) and equals word2idx[tokens[k]] in the final state;
\* on a fresh vocabulary ['cat','dog','cat'] gives [3,4,3].
C6_AddTokensIndices ==
    [][ call'.op = "add_tokens" =>
          LET toks == call'.tokens
              out == ret'.indices
              First(k) == CHOOSE j \in 1..k :
                  toks[j] = toks[k] /\ \A i \in 1..(j - 1) : toks[i] # toks[k]
              NewBefore(k) == {toks[j] : j \in 1..(First(k) - 1)} \ DOMAIN W2I
          IN  /\ Len(out) = Len(toks)
              /\ \A k \in 1..Len(toks) :
                    /\ toks[k] \in DOMAIN vocab'.word2idx
                    /\ out[k] = vocab'.word2idx[toks[k]]
                    /\ out[k] = IF toks[k] \in DOMAIN W2I THEN W2I[toks[k]]
                                ELSE vocab.count + Cardinality(NewBefore(k))
              /\ (vocab = initialize_vocabulary
                    /\ toks = <<"cat", "dog", "cat">>) => out = <<3, 4, 3>>
      ]_vars

C6_Witness ==
    /\ call.op = "add_tokens"
    /\ call.tokens = <<"cat", "dog", "cat">>
    /\ ret.indices = <<3, 4, 3>>
    /\ vocab.count = 5

C6_WitnessEmpty ==
    /\ call.op = "add_tokens"
    /\ call.tokens = <<>>
    /\ ret.indices = <<>>

\* C7: lookup_token never fails: it returns word2idx[token] for a present
\* token and 0, the index of '<UNK>', for any other string, and it leaves
\* the vocabulary unchanged.
C7_LookupTokenTotal ==
    /\ \A t \in Strings :
          LET r == lookup_token(vocab, t) IN
          /\ r.raised = ""
          /\ t \in DOMAIN W2I => r.ret = W2I[t]
          /\ t \notin DOMAIN W2I =>
                r.ret = 0 /\ r.ret = lookup_token(vocab, "<UNK>").ret
    /\ call.op = "lookup_token" =>
          /\ ret.raised = ""
          /\ ret.index = IF call.token \in DOMAIN W2I
                         THEN W2I[call.token] ELSE 0
          /\ call.token \notin Range(inserted) => ret.index = 0

C7_Witness ==
    /\ call.op = "lookup_token"
    /\ call.token = "zebra"
    /\ ret.index = 0
    /\ vocab.count = 6

\* C8: lookup_index returns idx2word[index] for an assigned index and the
\* literal '<UNK>' for any other integer, negative ones included; the
\* literal is the token stored at index 0.
C8_LookupIndexFallback ==
    /\ \A i \in IndexProbes :
          lookup_index(vocab, i) =
             IF i \in 0 .. (vocab.count - 1) THEN I2W[i] ELSE "<UNK>"
    /\ call.op = "lookup_index" =>
          ret.token = IF call.index \in 0 .. (vocab.count - 1)
                      THEN I2W[call.index] ELSE "<UNK>"
    /\ I2W[0] = "<UNK>"

C8_Witness ==
    /\ call.op = "lookup_index"
    /\ call.index = -1
    /\ ret.token = "<UNK>"
    /\ vocab.count = 5

\* C9: round trip: every token that has been passed to add_token satisfies
\* lookup_index(v, lookup_token(v, t)) = t, also after later insertions.
C9_RoundTrip ==
    \A t \in Range(inserted) :
        /\ lookup_token(vocab, t).raised = ""
        /\ lookup_index(vocab, lookup_token(vocab, t).ret) = t

C9_Witness ==
    /\ inserted = special_tokens \o <<"cat", "b", "a">>
    /\ call.op = "add_token"
    /\ call.token = "a"
    /\ lookup_index(vocab, lookup_token(vocab, "cat").ret) = "cat"

\* occurrences of a string in a token sequence
Occurrences(t, tokens) == Cardinality({i \in 1..Len(tokens) : tokens[i] = t})

====
